---- MODULE Spec2Model ----
(***************************************************************************)
(* Session registry of backend/app/services/session.py: SessionManager,   *)
(* SnowflakeSession and the per-session QueryResultStore, with the        *)
(* worker threads that call create_session / get_session /                *)
(* remove_session / shutdown and the background cleanup thread.           *)
(*                                                                         *)
(* Time is the wall clock in minutes.  The clock advances in steps of      *)
(* max_idle_minutes, so that an idle time below the timeout, one exactly   *)
(* equal to it and one beyond it are all reached.                          *)
(*                                                                         *)
(* Spec and LiveSpec are the registry.  StoreSpec follows one store        *)
(* instance through the calls made on it: a QueryResultStore built with    *)
(* any of a few limits, or the SystemConfigCache of routers/system.py;     *)
(* there the clock advances in steps of the instance's ttl.                *)
(* AliasSpec adds a caller that writes into what get returned, CapSpec     *)
(* follows a config cache that is filling up, and RemovalSpec is the       *)
(* registry with results being put into the sessions' stores.              *)
(*                                                                         *)
(* LimiterSpec is the RateLimiter of routers/connection.py with two        *)
(* threads calling is_allowed; its clock is time.time() in ticks of half   *)
(* a second; RetrySpec is the same limiter with one client and the times  *)
(* its retry values lead to.  ConnectSpec is the connect endpoint in       *)
(* front of the registry, ConfigSpec the config endpoint with its cache    *)
(* beside the registry, and QuerySpec the registry with queries being      *)
(* executed on the sessions it handed out.                                 *)
(***************************************************************************)
EXTENDS Integers, Sequences, FiniteSets, TLC

\* ------------------------------------------------------------------ bounds
MaxTicks == 2       \* clock advances in a behaviour
MaxUse == 1         \* cap on SnowflakeSession.query_count
MaxStoreTicks == 2  \* clock advances in a behaviour of the result store
MaxAllowed == 7     \* cap on the calls of is_allowed that were allowed, all keys
maxCount == 10000   \* entries a SystemConfigCache is filled up to, and one beyond
MaxStoredBytes == 60 \* cap on _total_size_bytes of a session's result store

\* ------------------------------------------------------- program constants
MAX_QUERY_RESULTS_PER_SESSION == 50
QUERY_RESULT_TTL_MINUTES == 5
MAX_RESULT_SIZE_BYTES == 10 * 1024 * 1024
max_idle_minutes == 30
CONFIG_CACHE_TTL_SECONDS == 900

Tokens == {1, 2}    \* the session ids uuid4 can return
Workers == {"w1", "w2"}
TickSteps == {max_idle_minutes}
MaxTime == MaxTicks * max_idle_minutes
NoToken == 0        \* no session id (None)

QueryIds == 1..3                 \* the query ids put and get are called with
Datas == {"a", "b"}              \* the result payloads put is called with
StoreCounts == {0, 1, 2}         \* max_results a store is constructed with
StoreTtls == {-1, QUERY_RESULT_TTL_MINUTES}  \* ttl_minutes a store is constructed with
StoreSizes == {55, 100, 200}     \* max_size_bytes a store is constructed with
MaxStoreTime == MaxStoreTicks * QUERY_RESULT_TTL_MINUTES
NoQuery == 0        \* no query id
Configs == {"x", "y"}            \* the configs SystemConfigCache.put is called with
Callers == {"w1"}                \* the thread that calls the registry while results are put
SessionQueryIds == {1}           \* the query ids execute_query stores results under
ClientIps == {"10.0.0.1", "10.0.0.2"}  \* the client_ip is_allowed is called with
TicksPerSecond == 2              \* resolution of time.time() in the model
NoIp == "None"      \* no client ip

VARIABLES
    now,          \* datetime.utcnow(), minutes
    _sessions,    \* SessionManager._sessions: the keys of the dict
    sess,         \* the SnowflakeSession object of each minted session id
    conn_ok,      \* whether the session's connection answers SELECT 1
    close_count,  \* calls of conn.close() per session
    _running,     \* SessionManager._running
    lock,         \* holder of SessionManager._lock
    minted,       \* session ids uuid4 has returned
    evicted,      \* the session ids the step just taken popped, the path, and
                  \* which of them held query results when popped
    true_removes, \* history: remove_session calls that returned True, per id
    pc,           \* position of each worker thread
    arg,          \* the session id a worker is working on
    r_pc,         \* position of the cleanup thread
    ret,          \* what the step just taken returned to its caller: [op, sid, val]
    store,        \* the store instance the calls are made on: a QueryResultStore
                  \* (_results in order, the limits, _total_size_bytes) or a
                  \* SystemConfigCache (_cache, _ttl_seconds)
    store_lock,   \* holder of that instance's _lock
    out,          \* what the store call just made returned: [op, key, found, data, n]
    used,         \* history: the query ids in the order of their most recent
                  \* successful put or get, oldest first
    clock,        \* time.time(), in ticks of 1/TicksPerSecond seconds
    limiter,      \* the RateLimiter: _attempts per client ip, the two limits
    call,         \* each thread's is_allowed call: position, the now it read, its key
    lim_out,      \* what the is_allowed call just finished returned
    allowed_log,  \* history: per client ip and time, the calls that read that
                  \* time as their now and were allowed
    denial        \* history: per client ip, the now and the retry value of the
                  \* last is_allowed call to return if it denied

vars == <<now, _sessions, sess, conn_ok, close_count, _running, lock, minted,
          true_removes, pc, arg, r_pc, ret, evicted, store, store_lock, out,
          used, clock, limiter, call, lim_out, allowed_log, denial>>

\* the variables of the session registry and those of the result store
sessvars == <<_sessions, sess, conn_ok, close_count, _running, lock, minted,
              true_removes, pc, arg, r_pc, ret, evicted>>
storevars == <<store, store_lock, out, used>>
limvars == <<clock, limiter, call, lim_out, allowed_log, denial>>

\* ------------------------------------------------------- QueryResultStore
QueryResultStore(max_results, ttl_minutes, max_size_bytes) ==
    [cls |-> "QueryResultStore",
     results |-> <<>>, total_size_bytes |-> 0, max_results |-> max_results,
     ttl_minutes |-> ttl_minutes, max_size_bytes |-> max_size_bytes]

\* QueryResult._estimate_size: sys.getsizeof(str(data)), a function of the payload
_estimate_size(data) == IF data = "a" THEN 50 ELSE 60

QueryResult(query_id, data, t) ==
    [id |-> query_id, data |-> data, created_at |-> t, last_accessed |-> t,
     size_bytes |-> _estimate_size(data)]

\* Mutant: a sliding TTL, counted from the last access.
result_is_expired_sliding(r, ttl_minutes, t) == t - r.last_accessed > ttl_minutes

result_is_expired(r, ttl_minutes, t) == t - r.created_at > ttl_minutes

\* Mutant: pops the entry and leaves the byte counter as it was.
_remove_nosize(st, query_id) ==
    [st EXCEPT !.results = SelectSeq(st.results, LAMBDA r : r.id # query_id)]

_remove(st, query_id) ==
    LET hit == SelectSeq(st.results, LAMBDA r : r.id = query_id)
        rest == SelectSeq(st.results, LAMBDA r : r.id # query_id)
    IN  IF hit = <<>> THEN st
        ELSE [st EXCEPT !.results = rest,
                        !.total_size_bytes = @ - Head(hit).size_bytes]

\* Mutant: evicts from the wrong end of the order.
_evict_oldest_newest(st) ==
    IF st.results # <<>>
    THEN _remove(st, st.results[Len(st.results)].id) ELSE st

_evict_oldest(st) ==
    IF st.results # <<>> THEN _remove(st, Head(st.results).id) ELSE st

RECURSIVE RemoveAll(_, _)
RemoveAll(st, ids) ==
    IF ids = <<>> THEN st ELSE RemoveAll(_remove(st, Head(ids)), Tail(ids))

_evict_expired(st, t) ==
    LET expired == SelectSeq(st.results,
                             LAMBDA r : result_is_expired(r, st.ttl_minutes, t))
    IN  RemoveAll(st, [i \in 1..Len(expired) |-> expired[i].id])

RECURSIVE EvictToCount(_)
EvictToCount(st) ==
    IF Len(st.results) >= st.max_results
    THEN EvictToCount(_evict_oldest(st)) ELSE st

\* Mutant: the byte budget is never enforced.
EvictToSize_none(st, size) == st

RECURSIVE EvictToSize(_, _)
EvictToSize(st, size) ==
    IF st.total_size_bytes + size > st.max_size_bytes /\ st.results # <<>>
    THEN EvictToSize(_evict_oldest(st), size) ELSE st

\* Mutant: a result that cannot fit the byte budget is not stored.
store_put_drop(st, query_id, data, t) ==
    LET result == QueryResult(query_id, data, t)
        s1 == _evict_expired(st, t)
        s2 == EvictToCount(s1)
        s3 == EvictToSize(s2, result.size_bytes)
        others == SelectSeq(s3.results, LAMBDA r : r.id # query_id)
    IN  IF result.size_bytes > st.max_size_bytes THEN s3
        ELSE [s3 EXCEPT !.results = Append(others, result),
                        !.total_size_bytes = @ + result.size_bytes]

store_put(st, query_id, data, t) ==
    LET result == QueryResult(query_id, data, t)
        s1 == _evict_expired(st, t)
        s2 == EvictToCount(s1)
        s3 == EvictToSize(s2, result.size_bytes)
        others == SelectSeq(s3.results, LAMBDA r : r.id # query_id)
    IN  [s3 EXCEPT !.results = Append(others, result),
                   !.total_size_bytes = @ + result.size_bytes]

\* Mutant: a hit is touched but not moved to the end.
store_get_nomove(st, query_id, t) ==
    LET hit == SelectSeq(st.results, LAMBDA r : r.id = query_id)
    IN  IF hit = <<>>
        THEN [st |-> st, found |-> FALSE, data |-> "None"]
        ELSE IF result_is_expired(Head(hit), st.ttl_minutes, t)
        THEN [st |-> _remove(st, query_id), found |-> FALSE, data |-> "None"]
        ELSE [st |-> [st EXCEPT !.results =
                          [i \in 1..Len(st.results) |->
                              IF st.results[i].id = query_id
                              THEN [st.results[i] EXCEPT !.last_accessed = t]
                              ELSE st.results[i]]],
              found |-> TRUE, data |-> Head(hit).data]

\* QueryResultStore.get: the store afterwards and what is returned
store_get(st, query_id, t) ==
    LET hit == SelectSeq(st.results, LAMBDA r : r.id = query_id)
        rest == SelectSeq(st.results, LAMBDA r : r.id # query_id)
    IN  IF hit = <<>>
        THEN [st |-> st, found |-> FALSE, data |-> "None"]
        ELSE IF result_is_expired(Head(hit), st.ttl_minutes, t)
        THEN [st |-> _remove(st, query_id), found |-> FALSE, data |-> "None"]
        ELSE [st |-> [st EXCEPT !.results =
                          Append(rest, [Head(hit) EXCEPT !.last_accessed = t])],
              found |-> TRUE, data |-> Head(hit).data]

\* QueryResultStore.__contains__
store_contains(st, query_id, t) ==
    \E i \in 1..Len(st.results) :
        /\ st.results[i].id = query_id
        /\ ~result_is_expired(st.results[i], st.ttl_minutes, t)

store_clear(st) == [st EXCEPT !.results = <<>>, !.total_size_bytes = 0]

\* ------------------------------------------------------ SystemConfigCache
\* time.time(), seconds
time_time(t) == t * 60

SystemConfigCache(ttl_seconds) ==
    [cls |-> "SystemConfigCache", _cache |-> <<>>, _ttl_seconds |-> ttl_seconds]

CachedConfig(config, t) == [config |-> config, cached_at |-> time_time(t)]

\* Mutant: an entry whose age equals the ttl counts as expired.
config_is_expired_ge(entry, ttl_seconds, t) ==
    time_time(t) - entry.cached_at >= ttl_seconds

config_is_expired(entry, ttl_seconds, t) ==
    time_time(t) - entry.cached_at > ttl_seconds

\* SystemConfigCache.get: the cache afterwards and what is returned
cache_get(c, session_id, t) ==
    IF session_id \notin DOMAIN c._cache
    THEN [st |-> c, found |-> FALSE, data |-> "None"]
    ELSE IF config_is_expired(c._cache[session_id], c._ttl_seconds, t)
    THEN [st |-> [c EXCEPT !._cache =
                     [k \in DOMAIN c._cache \ {session_id} |-> c._cache[k]]],
          found |-> FALSE, data |-> "None"]
    ELSE [st |-> c, found |-> TRUE, data |-> c._cache[session_id].config]

\* SystemConfigCache.put
cache_put(c, session_id, config, t) ==
    [c EXCEPT !._cache =
        [k \in DOMAIN c._cache \cup {session_id} |->
            IF k = session_id THEN CachedConfig(config, t) ELSE c._cache[k]]]

\* Mutant: reports an entry that was never there as removed.
cache_invalidate_true(c, session_id) ==
    [st |-> [c EXCEPT !._cache =
                [k \in DOMAIN c._cache \ {session_id} |-> c._cache[k]]],
     found |-> TRUE]

\* SystemConfigCache.invalidate: the cache afterwards and the bool returned
cache_invalidate(c, session_id) ==
    IF session_id \in DOMAIN c._cache
    THEN [st |-> [c EXCEPT !._cache =
                     [k \in DOMAIN c._cache \ {session_id} |-> c._cache[k]]],
          found |-> TRUE]
    ELSE [st |-> c, found |-> FALSE]

\* ------------------------------------------------------------ RateLimiter
RateLimiter(max_attempts, window_seconds) ==
    [_attempts |-> [k \in ClientIps |-> <<>>],
     _max_attempts |-> max_attempts, _window_seconds |-> window_seconds]

\* the global instance, connection.py line 65
connect_rate_limiter == RateLimiter(5, 60)

\* int(): a number of ticks as whole seconds, truncated towards zero
int(ticks) ==
    IF ticks >= 0 THEN ticks \div TicksPerSecond
    ELSE -((-ticks) \div TicksPerSecond)

\* Mutant: never drops an entry.
prune_none(L, attempts, t) == attempts

\* Mutant: keeps the entries up to and including the window's edge.
prune_le(L, attempts, t) ==
    SelectSeq(attempts, LAMBDA a : t - a <= L._window_seconds * TicksPerSecond)

\* lines 42-45: the entries younger than the window, seen from the caller's now
prune(L, attempts, t) ==
    SelectSeq(attempts, LAMBDA a : t - a < L._window_seconds * TicksPerSecond)

\* Mutant: the retry time without the added second.
seconds_until_reset_noplus(L, oldest, t) ==
    int(L._window_seconds * TicksPerSecond - (t - oldest))

\* line 49
seconds_until_reset(L, oldest, t) ==
    int(L._window_seconds * TicksPerSecond - (t - oldest)) + 1

\* Mutant: a denied attempt is recorded too.
is_allowed_record(L, client_ip, t) ==
    LET kept == prune(L, L._attempts[client_ip], t)
    IN  IF Len(kept) >= L._max_attempts
        THEN [lim |-> [L EXCEPT !._attempts[client_ip] = Append(kept, t)],
              allowed |-> FALSE,
              retry |-> seconds_until_reset(L, kept[1], t)]
        ELSE [lim |-> [L EXCEPT !._attempts[client_ip] = Append(kept, t)],
              allowed |-> TRUE, retry |-> 0]

\* Mutant: admits one attempt more than the limit.
is_allowed_gt(L, client_ip, t) ==
    LET kept == prune(L, L._attempts[client_ip], t)
    IN  IF Len(kept) > L._max_attempts
        THEN [lim |-> [L EXCEPT !._attempts[client_ip] = kept],
              allowed |-> FALSE,
              retry |-> seconds_until_reset(L, kept[1], t)]
        ELSE [lim |-> [L EXCEPT !._attempts[client_ip] = Append(kept, t)],
              allowed |-> TRUE, retry |-> 0]

\* RateLimiter.is_allowed, the locked section (lines 40-54), for a caller that
\* read t as its now: the limiter afterwards and what is returned
is_allowed(L, client_ip, t) ==
    LET kept == prune(L, L._attempts[client_ip], t)
    IN  IF Len(kept) >= L._max_attempts
        THEN [lim |-> [L EXCEPT !._attempts[client_ip] = kept],
              allowed |-> FALSE,
              retry |-> seconds_until_reset(L, kept[1], t)]
        ELSE [lim |-> [L EXCEPT !._attempts[client_ip] = Append(kept, t)],
              allowed |-> TRUE, retry |-> 0]

\* The times the clock is read at: the start, one tick later, and one tick
\* after a whole window of the global instance has passed.
LimTimes ==
    {0, 1, connect_rate_limiter._window_seconds * TicksPerSecond + 1}

\* The times the clock is read at where retry values are followed: those
\* above, the tick before a whole window has passed and the tick after the
\* last of them.
RetryTimes ==
    LimTimes \cup {connect_rate_limiter._window_seconds * TicksPerSecond - 1,
                   connect_rate_limiter._window_seconds * TicksPerSecond + 2}

\* The number of allowed calls so far.
RECURSIVE LogSum(_, _)
LogSum(log, pairs) ==
    IF pairs = {} THEN 0
    ELSE LET p == CHOOSE q \in pairs : TRUE
         IN  log[p[1]][p[2]] + LogSum(log, pairs \ {p})

NoCall == [at |-> "idle", now |-> 0, key |-> NoIp]

NoDenial == [now |-> 0, retry |-> 0]

NoLimOut == [op |-> "none", key |-> NoIp, allowed |-> FALSE, retry |-> 0,
             now |-> 0]

\* ------------------------------------------------------- SnowflakeSession
\* No object yet: the fields hold placeholders until __init__ assigns them.
NoSession ==
    [created_at |-> 0, last_used |-> 0, query_count |-> 0,
     query_results |-> QueryResultStore(MAX_QUERY_RESULTS_PER_SESSION,
                                        QUERY_RESULT_TTL_MINUTES,
                                        MAX_RESULT_SIZE_BYTES)]

\* SnowflakeSession.__init__, line 181
init_created_at(t) == [NoSession EXCEPT !.created_at = t]

\* Mutant: the constructor counts its own construction as a use.
init_rest_counted(s, t) ==
    [s EXCEPT !.last_used = t, !.query_count = 1,
              !.query_results = QueryResultStore(MAX_QUERY_RESULTS_PER_SESSION,
                                                 QUERY_RESULT_TTL_MINUTES,
                                                 MAX_RESULT_SIZE_BYTES)]

\* SnowflakeSession.__init__, lines 182-185
init_rest(s, t) ==
    [s EXCEPT !.last_used = t, !.query_count = 0,
              !.query_results = QueryResultStore(MAX_QUERY_RESULTS_PER_SESSION,
                                                 QUERY_RESULT_TTL_MINUTES,
                                                 MAX_RESULT_SIZE_BYTES)]

\* Mutant: refreshes the timestamp and forgets the counter.
touch_nocount(s, t) == [s EXCEPT !.last_used = t]

touch(s, t) == [s EXCEPT !.last_used = t, !.query_count = @ + 1]

\* Mutant: treats an idle time equal to the timeout as expired.
is_expired_ge(s, max_idle, t) == t - s.last_used >= max_idle

is_expired(s, max_idle, t) == t - s.last_used > max_idle

\* Mutant: the probe swallows the failure and reports the connection alive.
is_alive_always(sid) == TRUE

is_alive(sid) == conn_ok[sid]

\* ---------------------------------------------------------- SessionManager
\* The registry state the locked sections work on.
Reg == [keys |-> _sessions, objs |-> sess, closes |-> close_count, ok |-> conn_ok]

\* Mutant: calls conn.close() a second time on the way out.
session_close_twice(R, sid) ==
    [R EXCEPT !.objs[sid].query_results = store_clear(@),
              !.closes[sid] = @ + 2,
              !.ok[sid] = FALSE]

\* Mutant: closes the connection and leaves the stored results.
session_close_noclear(R, sid) ==
    [R EXCEPT !.closes[sid] = @ + 1,
              !.ok[sid] = FALSE]

\* SnowflakeSession.close: clears the results, closes the connection (a closed
\* connection answers no further SELECT 1)
session_close(R, sid) ==
    [R EXCEPT !.objs[sid].query_results = store_clear(@),
              !.closes[sid] = @ + 1,
              !.ok[sid] = FALSE]

\* Mutant: looks the session up without popping it, then closes it.
_remove_session_unsafe_nopop(R, sid) ==
    IF sid \in R.keys
    THEN [reg |-> session_close(R, sid), val |-> TRUE]
    ELSE [reg |-> R, val |-> FALSE]

\* Mutant: reports success whether or not the session was there.
_remove_session_unsafe_true(R, sid) ==
    IF sid \in R.keys
    THEN [reg |-> session_close([R EXCEPT !.keys = @ \ {sid}], sid), val |-> TRUE]
    ELSE [reg |-> R, val |-> TRUE]

_remove_session_unsafe(R, sid) ==
    IF sid \in R.keys
    THEN [reg |-> session_close([R EXCEPT !.keys = @ \ {sid}], sid), val |-> TRUE]
    ELSE [reg |-> R, val |-> FALSE]

RECURSIVE RemoveEach(_, _)
RemoveEach(R, sids) ==
    IF sids = {} THEN R
    ELSE LET sid == CHOOSE s \in sids : TRUE
         IN  RemoveEach(_remove_session_unsafe(R, sid).reg, sids \ {sid})

\* Mutant: collects the expired ids and removes none of them.
_cleanup_expired_skip(R, t) == R

_cleanup_expired(R, t) ==
    LET expired == {sid \in R.keys : is_expired(R.objs[sid], max_idle_minutes, t)}
    IN  RemoveEach(R, expired)

\* Mutant: flips the flag and leaves the sessions where they are.
shutdown_all_none(R) == R

shutdown_all(R) == RemoveEach(R, R.keys)

\* get_session as one locked section: the registry afterwards, what is
\* returned and the path that removed the session, if one did
get_session(R, sid, t) ==
    IF sid \notin R.keys
    THEN [reg |-> R, val |-> "None", by |-> "none"]
    ELSE IF is_expired(R.objs[sid], max_idle_minutes, t)
    THEN [reg |-> _remove_session_unsafe(R, sid).reg, val |-> "None", by |-> "get_idle"]
    ELSE IF ~is_alive(sid)
    THEN [reg |-> _remove_session_unsafe(R, sid).reg, val |-> "None", by |-> "get_dead"]
    ELSE [reg |-> [R EXCEPT !.objs[sid] = touch(@, t)], val |-> "session",
          by |-> "none"]

\* A session object that left the registry: the registry holds no reference to
\* it any more and never reads its timestamps or counter again, so only its
\* result store is kept.
Unreferenced(s) == [NoSession EXCEPT !.query_results = s.query_results]

NoEvict == [ids |-> {}, by |-> "none", nonempty |-> {}]

\* Assigns the registry state and records which call removed what.
SetReg(R, by) ==
    /\ _sessions' = R.keys
    /\ sess' = [t \in Tokens |->
                  IF t \in _sessions /\ t \notin R.keys
                  THEN Unreferenced(R.objs[t]) ELSE R.objs[t]]
    /\ close_count' = R.closes
    /\ conn_ok' = R.ok
    /\ evicted' = IF _sessions \ R.keys = {} THEN NoEvict
                  ELSE [ids |-> _sessions \ R.keys, by |-> by,
                        nonempty |-> {t \in _sessions \ R.keys :
                                        sess[t].query_results.results # <<>>}]

NoRet == [op |-> "none", sid |-> NoToken, val |-> "None"]

NoOut ==
    [op |-> "none", key |-> NoQuery, found |-> FALSE, data |-> "None", n |-> 0,
     bytes |-> 0]

Init ==
    /\ now = 0
    /\ _sessions = {}
    /\ sess = [t \in Tokens |-> NoSession]
    /\ conn_ok = [t \in Tokens |-> TRUE]
    /\ close_count = [t \in Tokens |-> 0]
    /\ _running = TRUE
    /\ lock = "free"
    /\ minted = {}
    /\ evicted = NoEvict
    /\ true_removes = [t \in Tokens |-> 0]
    /\ pc = [w \in Workers |-> "idle"]
    /\ arg = [w \in Workers |-> NoToken]
    /\ r_pc = "check"
    /\ ret = NoRet
    /\ store = QueryResultStore(MAX_QUERY_RESULTS_PER_SESSION,
                                QUERY_RESULT_TTL_MINUTES, MAX_RESULT_SIZE_BYTES)
    /\ store_lock = "free"
    /\ out = NoOut
    /\ used = <<>>
    /\ clock = 0
    /\ limiter = connect_rate_limiter
    /\ call = [w \in Workers |-> NoCall]
    /\ lim_out = NoLimOut
    /\ allowed_log = [k \in ClientIps |-> [t \in RetryTimes |-> 0]]
    /\ denial = [k \in ClientIps |-> NoDenial]

\* Mutant: an id generator that can repeat itself.
uuid4_repeat == Tokens

\* uuid4(): an id no earlier call has returned; ids are opaque, so the model
\* hands them out in order
uuid4 == {sid \in Tokens \ minted : \A o \in Tokens \ minted : sid <= o}

\* create_session, line 256 and SnowflakeSession.__init__ up to created_at
create_begin(w) ==
    /\ pc[w] = "idle"
    /\ \E sid \in uuid4 :
        /\ minted' = minted \cup {sid}
        /\ arg' = [arg EXCEPT ![w] = sid]
        /\ sess' = [sess EXCEPT ![sid] = init_created_at(now)]
    /\ pc' = [pc EXCEPT ![w] = "ctor"]
    /\ ret' = NoRet
    /\ evicted' = NoEvict
    /\ UNCHANGED <<now, _sessions, conn_ok, close_count, _running, lock,
                   true_removes, r_pc>>
    /\ UNCHANGED <<storevars, limvars>>

\* SnowflakeSession.__init__ from last_used on
create_ctor(w) ==
    /\ pc[w] = "ctor"
    /\ sess' = [sess EXCEPT ![arg[w]] = init_rest(@, now)]
    /\ pc' = [pc EXCEPT ![w] = "insert"]
    /\ ret' = NoRet
    /\ evicted' = NoEvict
    /\ UNCHANGED <<now, _sessions, conn_ok, close_count, _running, lock, minted,
                   true_removes, arg, r_pc>>
    /\ UNCHANGED <<storevars, limvars>>

\* create_session, the locked insert and the return
create_insert(w) ==
    /\ pc[w] = "insert"
    /\ lock = "free"
    /\ _sessions' = _sessions \cup {arg[w]}
    /\ ret' = [op |-> "create", sid |-> arg[w], val |-> "sid"]
    /\ pc' = [pc EXCEPT ![w] = "idle"]
    /\ arg' = [arg EXCEPT ![w] = NoToken]
    /\ evicted' = NoEvict
    /\ UNCHANGED <<now, sess, conn_ok, close_count, _running, lock, minted,
                   true_removes, r_pc>>
    /\ UNCHANGED <<storevars, limvars>>

\* get_session up to the probe: lookup and idle check, under the lock
get_begin(w, sid) ==
    /\ pc[w] = "idle"
    /\ lock = "free"
    /\ IF sid \notin _sessions
       THEN /\ ret' = [op |-> "get", sid |-> sid, val |-> "None"]
            /\ evicted' = NoEvict
            /\ UNCHANGED <<_sessions, sess, close_count, conn_ok, lock, pc, arg>>
       ELSE IF is_expired(sess[sid], max_idle_minutes, now)
       THEN /\ SetReg(_remove_session_unsafe(Reg, sid).reg, "get_idle")
            /\ ret' = [op |-> "get", sid |-> sid, val |-> "None"]
            /\ UNCHANGED <<lock, pc, arg>>
       ELSE /\ sess[sid].query_count < MaxUse
            /\ lock' = w
            /\ pc' = [pc EXCEPT ![w] = "probe"]
            /\ arg' = [arg EXCEPT ![w] = sid]
            /\ ret' = NoRet
            /\ evicted' = NoEvict
            /\ UNCHANGED <<_sessions, sess, close_count, conn_ok>>
    /\ UNCHANGED <<now, _running, minted, true_removes, r_pc>>
    /\ UNCHANGED <<storevars, limvars>>

\* get_session from is_alive on: the probe returns, then remove or touch
get_probe(w) ==
    /\ pc[w] = "probe"
    /\ lock = w
    /\ IF ~is_alive(arg[w])
       THEN /\ SetReg(_remove_session_unsafe(Reg, arg[w]).reg, "get_dead")
            /\ ret' = [op |-> "get", sid |-> arg[w], val |-> "None"]
       ELSE /\ sess' = [sess EXCEPT ![arg[w]] = touch(@, now)]
            /\ ret' = [op |-> "get", sid |-> arg[w], val |-> "session"]
            /\ evicted' = NoEvict
            /\ UNCHANGED <<_sessions, close_count, conn_ok>>
    /\ lock' = "free"
    /\ pc' = [pc EXCEPT ![w] = "idle"]
    /\ arg' = [arg EXCEPT ![w] = NoToken]
    /\ UNCHANGED <<now, _running, minted, true_removes, r_pc>>
    /\ UNCHANGED <<storevars, limvars>>

remove_session(w, sid) ==
    /\ pc[w] = "idle"
    /\ lock = "free"
    /\ LET r == _remove_session_unsafe(Reg, sid)
       IN  /\ SetReg(r.reg, "remove")
           /\ ret' = [op |-> "remove", sid |-> sid,
                      val |-> IF r.val THEN "True" ELSE "False"]
           /\ true_removes' = [true_removes EXCEPT
                                 ![sid] = IF r.val THEN @ + 1 ELSE @]
    /\ UNCHANGED <<now, _running, lock, minted, pc, arg, r_pc>>
    /\ UNCHANGED <<storevars, limvars>>

\* shutdown, line 336
shutdown_begin(w) ==
    /\ pc[w] = "idle"
    /\ _running' = FALSE
    /\ pc' = [pc EXCEPT ![w] = "shutdown"]
    /\ ret' = NoRet
    /\ evicted' = NoEvict
    /\ UNCHANGED <<now, _sessions, sess, conn_ok, close_count, lock, minted,
                   true_removes, arg, r_pc>>
    /\ UNCHANGED <<storevars, limvars>>

\* shutdown, lines 337-339
shutdown_sweep(w) ==
    /\ pc[w] = "shutdown"
    /\ lock = "free"
    /\ SetReg(shutdown_all(Reg), "shutdown")
    /\ ret' = [op |-> "shutdown", sid |-> NoToken, val |-> "None"]
    /\ pc' = [pc EXCEPT ![w] = "idle"]
    /\ UNCHANGED <<now, _running, lock, minted, true_removes, arg, r_pc>>
    /\ UNCHANGED <<storevars, limvars>>

\* _cleanup_loop: the while test
reaper_check ==
    /\ r_pc = "check"
    /\ r_pc' = IF _running THEN "sleep" ELSE "done"
    /\ ret' = NoRet
    /\ evicted' = NoEvict
    /\ UNCHANGED <<now, _sessions, sess, conn_ok, close_count, _running, lock,
                   minted, true_removes, pc, arg>>
    /\ UNCHANGED <<storevars, limvars>>

\* _cleanup_loop: time.sleep returns, then _cleanup_expired under the lock
reaper_sweep ==
    /\ r_pc = "sleep"
    /\ lock = "free"
    /\ SetReg(_cleanup_expired(Reg, now), "reaper")
    /\ r_pc' = "check"
    /\ ret' = NoRet
    /\ UNCHANGED <<now, _running, lock, minted, true_removes, pc, arg>>
    /\ UNCHANGED <<storevars, limvars>>

\* the wall clock advances
Tick ==
    /\ \E d \in TickSteps :
        /\ now + d <= MaxTime
        /\ now' = now + d
    /\ ret' = NoRet
    /\ evicted' = NoEvict
    /\ UNCHANGED <<_sessions, sess, conn_ok, close_count, _running, lock, minted,
                   true_removes, pc, arg, r_pc>>
    /\ UNCHANGED <<storevars, limvars>>

\* the connection of a registered session stops answering
conn_fail(sid) ==
    /\ sid \in _sessions
    /\ conn_ok[sid]
    /\ conn_ok' = [conn_ok EXCEPT ![sid] = FALSE]
    /\ ret' = NoRet
    /\ evicted' = NoEvict
    /\ UNCHANGED <<now, _sessions, sess, close_count, _running, lock, minted,
                   true_removes, pc, arg, r_pc>>
    /\ UNCHANGED <<storevars, limvars>>

Next ==
    \/ \E w \in Workers : create_begin(w)
    \/ \E w \in Workers : create_ctor(w)
    \/ \E w \in Workers : create_insert(w)
    \/ \E w \in Workers, sid \in Tokens : get_begin(w, sid)
    \/ \E w \in Workers : get_probe(w)
    \/ \E w \in Workers, sid \in Tokens : remove_session(w, sid)
    \/ \E w \in Workers : shutdown_begin(w)
    \/ \E w \in Workers : shutdown_sweep(w)
    \/ reaper_check
    \/ reaper_sweep
    \/ \E sid \in Tokens : conn_fail(sid)
    \/ Tick

Spec == Init /\ [][Next]_vars

\* The cleanup thread is scheduled and gets the lock when it is free again and
\* again; a probe that was started returns.
Fairness ==
    /\ WF_vars(reaper_check)
    /\ SF_vars(reaper_sweep)
    /\ \A w \in Workers : WF_vars(get_probe(w))

LiveSpec == Init /\ [][Next]_vars /\ Fairness

\* ------------------------------------------------- a QueryResultStore in use
\* A store as its constructor leaves it, for each choice of the three limits.
StoreInit ==
    /\ now = 0
    /\ _sessions = {}
    /\ sess = [t \in Tokens |-> NoSession]
    /\ conn_ok = [t \in Tokens |-> TRUE]
    /\ close_count = [t \in Tokens |-> 0]
    /\ _running = TRUE
    /\ lock = "free"
    /\ minted = {}
    /\ evicted = NoEvict
    /\ true_removes = [t \in Tokens |-> 0]
    /\ pc = [w \in Workers |-> "idle"]
    /\ arg = [w \in Workers |-> NoToken]
    /\ r_pc = "check"
    /\ ret = NoRet
    /\ \/ \E max_results \in StoreCounts, ttl_minutes \in StoreTtls,
             max_size_bytes \in StoreSizes :
               store = QueryResultStore(max_results, ttl_minutes, max_size_bytes)
       \/ store = SystemConfigCache(CONFIG_CACHE_TTL_SECONDS)
    /\ store_lock = "free"
    /\ out = NoOut
    /\ used = <<>>
    /\ clock = 0
    /\ limiter = connect_rate_limiter
    /\ call = [w \in Workers |-> NoCall]
    /\ lim_out = NoLimOut
    /\ allowed_log = [k \in ClientIps |-> [t \in RetryTimes |-> 0]]
    /\ denial = [k \in ClientIps |-> NoDenial]

\* QueryResultStore.put.  With max_results <= 0 the loop of line 88 never
\* ends: the call does not return and keeps the lock.
put(query_id, data) ==
    /\ store.cls = "QueryResultStore"
    /\ store_lock = "free"
    /\ IF store.max_results <= 0
       THEN /\ store' = _evict_expired(store, now)
            /\ store_lock' = "put"
            /\ out' = NoOut
            /\ UNCHANGED used
       ELSE /\ store' = store_put(store, query_id, data, now)
            /\ out' = [NoOut EXCEPT !.op = "put", !.key = query_id, !.data = data]
            /\ used' = Append(SelectSeq(used, LAMBDA k : k # query_id), query_id)
            /\ UNCHANGED store_lock
    /\ UNCHANGED <<now, sessvars, limvars>>

\* QueryResultStore.get
get(query_id) ==
    /\ store.cls = "QueryResultStore"
    /\ store_lock = "free"
    /\ LET g == store_get(store, query_id, now)
       IN  /\ store' = g.st
           /\ out' = [NoOut EXCEPT !.op = "get", !.key = query_id,
                                   !.found = g.found, !.data = g.data]
           /\ used' = IF g.found
                      THEN Append(SelectSeq(used, LAMBDA k : k # query_id), query_id)
                      ELSE used
    /\ UNCHANGED <<now, store_lock, sessvars, limvars>>

\* QueryResultStore.__contains__
__contains__(query_id) ==
    /\ store.cls = "QueryResultStore"
    /\ store_lock = "free"
    /\ out' = [NoOut EXCEPT !.op = "contains", !.key = query_id,
                            !.found = store_contains(store, query_id, now)]
    /\ UNCHANGED <<now, store, store_lock, used, sessvars, limvars>>

\* QueryResultStore.__len__
__len__ ==
    /\ store.cls = "QueryResultStore"
    /\ store_lock = "free"
    /\ out' = [NoOut EXCEPT !.op = "len", !.n = Len(store.results)]
    /\ UNCHANGED <<now, store, store_lock, used, sessvars, limvars>>

\* QueryResultStore.stats
stats ==
    /\ store.cls = "QueryResultStore"
    /\ store_lock = "free"
    /\ out' = [NoOut EXCEPT !.op = "stats", !.n = Len(store.results),
                            !.bytes = store.total_size_bytes]
    /\ UNCHANGED <<now, store, store_lock, used, sessvars, limvars>>

\* QueryResultStore.clear
clear ==
    /\ store.cls = "QueryResultStore"
    /\ store_lock = "free"
    /\ store' = store_clear(store)
    /\ out' = [NoOut EXCEPT !.op = "clear"]
    /\ UNCHANGED <<now, store_lock, used, sessvars, limvars>>

\* the wall clock advances, seen from the store
store_tick ==
    /\ store.cls = "QueryResultStore"
    /\ now + QUERY_RESULT_TTL_MINUTES <= MaxStoreTime
    /\ now' = now + QUERY_RESULT_TTL_MINUTES
    /\ out' = NoOut
    /\ UNCHANGED <<store, store_lock, used, sessvars, limvars>>

\* SystemConfigCache.get
config_get(session_id) ==
    /\ store.cls = "SystemConfigCache"
    /\ store_lock = "free"
    /\ LET g == cache_get(store, session_id, now)
       IN  /\ store' = g.st
           /\ out' = [NoOut EXCEPT !.op = "config_get", !.key = session_id,
                                   !.found = g.found, !.data = g.data]
    /\ UNCHANGED <<now, store_lock, used, sessvars, limvars>>

\* SystemConfigCache.put
config_put(session_id, config) ==
    /\ store.cls = "SystemConfigCache"
    /\ store_lock = "free"
    /\ store' = cache_put(store, session_id, config, now)
    /\ out' = [NoOut EXCEPT !.op = "config_put", !.key = session_id,
                            !.data = config]
    /\ UNCHANGED <<now, store_lock, used, sessvars, limvars>>

\* SystemConfigCache.invalidate
config_invalidate(session_id) ==
    /\ store.cls = "SystemConfigCache"
    /\ store_lock = "free"
    /\ LET g == cache_invalidate(store, session_id)
       IN  /\ store' = g.st
           /\ out' = [NoOut EXCEPT !.op = "config_invalidate",
                                   !.key = session_id, !.found = g.found]
    /\ UNCHANGED <<now, store_lock, used, sessvars, limvars>>

\* the wall clock advances, seen from the config cache
config_tick ==
    /\ store.cls = "SystemConfigCache"
    /\ now + CONFIG_CACHE_TTL_SECONDS \div 60 <= MaxStoreTicks * (CONFIG_CACHE_TTL_SECONDS \div 60)
    /\ now' = now + CONFIG_CACHE_TTL_SECONDS \div 60
    /\ out' = NoOut
    /\ UNCHANGED <<store, store_lock, used, sessvars, limvars>>

StoreNext ==
    \/ \E query_id \in QueryIds, data \in Datas : put(query_id, data)
    \/ \E query_id \in QueryIds : get(query_id)
    \/ \E query_id \in QueryIds : __contains__(query_id)
    \/ __len__
    \/ stats
    \/ clear
    \/ store_tick
    \/ \E session_id \in Tokens : config_get(session_id)
    \/ \E session_id \in Tokens, config \in Configs : config_put(session_id, config)
    \/ \E session_id \in Tokens : config_invalidate(session_id)
    \/ config_tick

StoreSpec == StoreInit /\ [][StoreNext]_vars

\* ------------------------------------- the registry while results are stored
\* execute_query, line 533: a caller that holds the session object, from an
\* earlier get_session, puts a result into session.query_results.  The
\* object stays with its holder after the registry dropped it.
query_put(sid, query_id, data) ==
    /\ sid \in minted
    /\ \A w \in Workers : arg[w] = sid => pc[w] \notin {"ctor", "insert"}
    /\ sid \in _sessions => sess[sid].query_count > 0
    /\ sess[sid].query_results.total_size_bytes + _estimate_size(data)
           <= MaxStoredBytes
    /\ sess' = [sess EXCEPT ![sid].query_results = store_put(@, query_id, data, now)]
    /\ ret' = [op |-> "put", sid |-> sid, val |-> "None"]
    /\ evicted' = NoEvict
    /\ UNCHANGED <<now, _sessions, conn_ok, close_count, _running, lock, minted,
                   true_removes, pc, arg, r_pc>>
    /\ UNCHANGED <<storevars, limvars>>

RemovalNext ==
    \/ \E w \in Callers : create_begin(w)
    \/ \E w \in Callers : create_ctor(w)
    \/ \E w \in Callers : create_insert(w)
    \/ \E w \in Callers, sid \in Tokens : get_begin(w, sid)
    \/ \E w \in Callers : get_probe(w)
    \/ \E w \in Callers, sid \in Tokens : remove_session(w, sid)
    \/ \E w \in Callers : shutdown_begin(w)
    \/ \E w \in Callers : shutdown_sweep(w)
    \/ reaper_check
    \/ reaper_sweep
    \/ \E sid \in Tokens : conn_fail(sid)
    \/ Tick
    \/ \E sid \in Tokens, query_id \in SessionQueryIds : query_put(sid, query_id, "a")

RemovalSpec == Init /\ [][RemovalNext]_vars

\* ------------------------------------------- a caller holding what get returned
\* cancel_query, lines 719-730: get returns result.data, the dict the store
\* holds, and the caller assigns into it.  The size was estimated when the
\* result was put and is not estimated again.
mutate(data) ==
    /\ store.cls = "QueryResultStore"
    /\ out.op = "get"
    /\ out.found
    /\ data # out.data
    /\ store' = [store EXCEPT !.results =
                    [i \in 1..Len(store.results) |->
                        IF store.results[i].id = out.key
                        THEN [store.results[i] EXCEPT !.data = data]
                        ELSE store.results[i]]]
    /\ out' = [NoOut EXCEPT !.op = "mutate", !.key = out.key, !.data = data]
    /\ UNCHANGED <<now, store_lock, used, sessvars, limvars>>

\* SystemConfigCache.get returns entry.config, the dict the cache holds; a
\* caller assigns into it
config_mutate(config) ==
    /\ store.cls = "SystemConfigCache"
    /\ out.op = "config_get"
    /\ out.found
    /\ config # out.data
    /\ store' = [store EXCEPT !._cache[out.key].config = config]
    /\ out' = [NoOut EXCEPT !.op = "config_mutate", !.key = out.key,
                            !.data = config]
    /\ UNCHANGED <<now, store_lock, used, sessvars, limvars>>

AliasNext ==
    \/ \E query_id \in QueryIds, data \in Datas : put(query_id, data)
    \/ \E query_id \in QueryIds : get(query_id)
    \/ \E data \in Datas : mutate(data)
    \/ store_tick
    \/ \E session_id \in Tokens : config_get(session_id)
    \/ \E session_id \in Tokens, config \in Configs : config_put(session_id, config)
    \/ \E config \in Configs : config_mutate(config)
    \/ config_tick

AliasSpec == StoreInit /\ [][AliasNext]_vars

\* ------------------------------------------------- the rate limiter in use
\* is_allowed, line 38: the caller reads the clock before it takes the lock
is_allowed_begin(w, client_ip) ==
    /\ call[w].at = "idle"
    /\ LogSum(allowed_log, ClientIps \X RetryTimes) < MaxAllowed
    /\ call' = [call EXCEPT ![w] = [at |-> "lock", now |-> clock, key |-> client_ip]]
    /\ lim_out' = NoLimOut
    /\ UNCHANGED <<now, clock, limiter, allowed_log, denial, sessvars, storevars>>

\* is_allowed, lines 40-54: the locked section and the return
is_allowed_locked(w) ==
    /\ call[w].at = "lock"
    /\ LET key == call[w].key
           r == is_allowed(limiter, key, call[w].now)
       IN  /\ limiter' = r.lim
           /\ lim_out' = [op |-> "is_allowed", key |-> key, allowed |-> r.allowed,
                          retry |-> r.retry, now |-> call[w].now]
           /\ allowed_log' = IF r.allowed
                             THEN [allowed_log EXCEPT ![key][call[w].now] = @ + 1]
                             ELSE allowed_log
           /\ denial' = [denial EXCEPT ![key] =
                            IF r.allowed THEN NoDenial
                            ELSE [now |-> call[w].now, retry |-> r.retry]]
    /\ call' = [call EXCEPT ![w] = NoCall]
    /\ UNCHANGED <<now, clock, sessvars, storevars>>

\* the clock advances to a later one of the times looked at
lim_tick ==
    /\ \E t \in LimTimes :
          /\ t > clock
          /\ clock' = t
    /\ lim_out' = NoLimOut
    /\ UNCHANGED <<now, limiter, call, allowed_log, denial, sessvars, storevars>>

LimiterNext ==
    \/ \E w \in Workers, client_ip \in ClientIps : is_allowed_begin(w, client_ip)
    \/ \E w \in Workers : is_allowed_locked(w)
    \/ lim_tick

LimiterSpec == Init /\ [][LimiterNext]_vars

\* ------------------------------------------- the rate limiter and one client
\* the clock advances to a later one of the times retry values lead to
retry_tick ==
    /\ \E t \in RetryTimes :
          /\ t > clock
          /\ clock' = t
    /\ lim_out' = NoLimOut
    /\ UNCHANGED <<now, limiter, call, allowed_log, denial, sessvars, storevars>>

RetryNext ==
    \/ \E w \in Workers : is_allowed_begin(w, "10.0.0.1")
    \/ \E w \in Workers : is_allowed_locked(w)
    \/ retry_tick

RetrySpec == Init /\ [][RetryNext]_vars

\* ------------------------------------------------------- the connect path
\* The requests connect is called with: the X-Forwarded-For header split at
\* the commas (empty when absent), the X-Real-IP header and the peer address.
Requests ==
    {[forwarded |-> <<"10.0.0.2", "10.0.0.1">>, real_ip |-> NoIp, host |-> "10.0.0.1"],
     [forwarded |-> <<>>, real_ip |-> "10.0.0.2", host |-> "10.0.0.1"],
     [forwarded |-> <<>>, real_ip |-> NoIp, host |-> "10.0.0.1"]}

_get_client_ip(request) ==
    IF request.forwarded # <<>> THEN request.forwarded[1]
    ELSE IF request.real_ip # NoIp THEN request.real_ip
    ELSE IF request.host # NoIp THEN request.host
    ELSE "unknown"

\* The registry of the connect path, with the config cache as the store.
ConnectInit ==
    /\ now = 0
    /\ _sessions = {}
    /\ sess = [t \in Tokens |-> NoSession]
    /\ conn_ok = [t \in Tokens |-> TRUE]
    /\ close_count = [t \in Tokens |-> 0]
    /\ _running = TRUE
    /\ lock = "free"
    /\ minted = {}
    /\ evicted = NoEvict
    /\ true_removes = [t \in Tokens |-> 0]
    /\ pc = [w \in Workers |-> "idle"]
    /\ arg = [w \in Workers |-> NoToken]
    /\ r_pc = "check"
    /\ ret = NoRet
    /\ store = SystemConfigCache(CONFIG_CACHE_TTL_SECONDS)
    /\ store_lock = "free"
    /\ out = NoOut
    /\ used = <<>>
    /\ clock = 0
    /\ limiter = connect_rate_limiter
    /\ call = [w \in Workers |-> NoCall]
    /\ lim_out = NoLimOut
    /\ allowed_log = [k \in ClientIps |-> [t \in RetryTimes |-> 0]]
    /\ denial = [k \in ClientIps |-> NoDenial]

\* connect, lines 133-134 up to the clock read of is_allowed
connect_begin(w, request) ==
    /\ pc[w] = "idle"
    /\ call[w].at = "idle"
    /\ call' = [call EXCEPT ![w] = [at |-> "lock", now |-> clock,
                                    key |-> _get_client_ip(request)]]
    /\ pc' = [pc EXCEPT ![w] = "connect"]
    /\ ret' = NoRet
    /\ evicted' = NoEvict
    /\ lim_out' = NoLimOut
    /\ UNCHANGED <<now, _sessions, sess, conn_ok, close_count, _running, lock,
                   minted, true_removes, arg, r_pc>>
    /\ UNCHANGED <<clock, limiter, allowed_log, denial, storevars>>

\* Mutant: the verdict of the limiter is ignored.
connect_limit_nogate(w) ==
    /\ pc[w] = "connect"
    /\ call[w].at = "lock"
    /\ LET key == call[w].key
           r == is_allowed(limiter, key, call[w].now)
       IN  /\ limiter' = r.lim
           /\ lim_out' = [op |-> "is_allowed", key |-> key, allowed |-> r.allowed,
                          retry |-> r.retry, now |-> call[w].now]
           /\ allowed_log' = IF r.allowed
                             THEN [allowed_log EXCEPT ![key][call[w].now] = @ + 1]
                             ELSE allowed_log
           /\ denial' = [denial EXCEPT ![key] =
                            IF r.allowed THEN NoDenial
                            ELSE [now |-> call[w].now, retry |-> r.retry]]
           /\ pc' = [pc EXCEPT ![w] = "auth"]
           /\ ret' = NoRet
    /\ call' = [call EXCEPT ![w] = NoCall]
    /\ evicted' = NoEvict
    /\ UNCHANGED <<now, _sessions, sess, conn_ok, close_count, _running, lock,
                   minted, true_removes, arg, r_pc>>
    /\ UNCHANGED <<clock, storevars>>

\* connect, lines 134-147: the locked section of is_allowed, then the 429
\* response when the attempt is denied
connect_limit(w) ==
    /\ pc[w] = "connect"
    /\ call[w].at = "lock"
    /\ LET key == call[w].key
           r == is_allowed(limiter, key, call[w].now)
       IN  /\ limiter' = r.lim
           /\ lim_out' = [op |-> "is_allowed", key |-> key, allowed |-> r.allowed,
                          retry |-> r.retry, now |-> call[w].now]
           /\ allowed_log' = IF r.allowed
                             THEN [allowed_log EXCEPT ![key][call[w].now] = @ + 1]
                             ELSE allowed_log
           /\ denial' = [denial EXCEPT ![key] =
                            IF r.allowed THEN NoDenial
                            ELSE [now |-> call[w].now, retry |-> r.retry]]
           /\ IF r.allowed
              THEN /\ pc' = [pc EXCEPT ![w] = "auth"]
                   /\ ret' = NoRet
              ELSE /\ pc' = [pc EXCEPT ![w] = "idle"]
                   /\ ret' = [op |-> "connect", sid |-> NoToken, val |-> "429"]
    /\ call' = [call EXCEPT ![w] = NoCall]
    /\ evicted' = NoEvict
    /\ UNCHANGED <<now, _sessions, sess, conn_ok, close_count, _running, lock,
                   minted, true_removes, arg, r_pc>>
    /\ UNCHANGED <<clock, storevars>>

\* connect, lines 149-186: the credentials are rejected or the connection
\* fails and an error is returned, or the connection is made and
\* create_session is entered (line 256 and the constructor up to created_at)
connect_auth(w) ==
    /\ pc[w] = "auth"
    /\ \/ /\ pc' = [pc EXCEPT ![w] = "idle"]
          /\ ret' = [op |-> "connect", sid |-> NoToken, val |-> "error"]
          /\ UNCHANGED <<minted, arg, sess>>
       \/ /\ \E sid \in uuid4 :
                /\ minted' = minted \cup {sid}
                /\ arg' = [arg EXCEPT ![w] = sid]
                /\ sess' = [sess EXCEPT ![sid] = init_created_at(now)]
          /\ pc' = [pc EXCEPT ![w] = "ctor"]
          /\ ret' = NoRet
    /\ evicted' = NoEvict
    /\ UNCHANGED <<now, _sessions, conn_ok, close_count, _running, lock,
                   true_removes, r_pc>>
    /\ UNCHANGED <<storevars, limvars>>

ConnectNext ==
    \/ \E w \in Callers, request \in Requests : connect_begin(w, request)
    \/ \E w \in Callers : connect_limit(w)
    \/ \E w \in Callers : connect_auth(w)
    \/ \E w \in Callers : create_ctor(w)
    \/ \E w \in Callers : create_insert(w)
    \/ \E w \in Callers, sid \in Tokens : get_begin(w, sid)
    \/ \E w \in Callers : get_probe(w)
    \/ \E w \in Callers, sid \in Tokens : remove_session(w, sid)
    \/ \E sid \in Tokens, query_id \in SessionQueryIds : query_put(sid, query_id, "a")
    \/ \E session_id \in minted : config_get(session_id)
    \/ \E session_id \in _sessions : config_put(session_id, "x")

ConnectSpec == ConnectInit /\ [][ConnectNext]_vars

\* ------------------------------------------------- the config endpoint
\* get_system_config, lines 443-446: the cache is asked first and a cached
\* config is returned as it is
get_system_config(w, x_session_id) ==
    /\ pc[w] = "idle"
    /\ store_lock = "free"
    /\ LET g == cache_get(store, x_session_id, now)
       IN  /\ store' = g.st
           /\ IF g.found
              THEN /\ ret' = [op |-> "config", sid |-> x_session_id, val |-> "cached"]
                   /\ UNCHANGED <<pc, arg>>
              ELSE /\ ret' = NoRet
                   /\ pc' = [pc EXCEPT ![w] = "config"]
                   /\ arg' = [arg EXCEPT ![w] = x_session_id]
    /\ evicted' = NoEvict
    /\ out' = NoOut
    /\ UNCHANGED <<now, _sessions, sess, conn_ok, close_count, _running, lock,
                   minted, true_removes, r_pc>>
    /\ UNCHANGED <<store_lock, used, limvars>>

\* get_system_config, lines 449-454: get_session, whole under the registry
\* lock, and the 401 when it returns None
config_session(w) ==
    /\ pc[w] = "config"
    /\ lock = "free"
    /\ LET g == get_session(Reg, arg[w], now)
       IN  /\ g.val = "session" => sess[arg[w]].query_count < MaxUse
           /\ SetReg(g.reg, g.by)
           /\ IF g.val = "None"
              THEN /\ ret' = [op |-> "config", sid |-> arg[w],
                              val |-> "SESSION_NOT_FOUND"]
                   /\ pc' = [pc EXCEPT ![w] = "idle"]
                   /\ arg' = [arg EXCEPT ![w] = NoToken]
              ELSE /\ ret' = NoRet
                   /\ pc' = [pc EXCEPT ![w] = "build"]
                   /\ arg' = arg
    /\ UNCHANGED <<now, _running, lock, minted, true_removes, r_pc>>
    /\ UNCHANGED <<storevars, limvars>>

\* get_system_config, lines 457-460: the config is built, cached and returned
config_build(w) ==
    /\ pc[w] = "build"
    /\ store_lock = "free"
    /\ store' = cache_put(store, arg[w], "x", now)
    /\ ret' = [op |-> "config", sid |-> arg[w], val |-> "built"]
    /\ pc' = [pc EXCEPT ![w] = "idle"]
    /\ arg' = [arg EXCEPT ![w] = NoToken]
    /\ evicted' = NoEvict
    /\ out' = NoOut
    /\ UNCHANGED <<now, _sessions, sess, conn_ok, close_count, _running, lock,
                   minted, true_removes, r_pc>>
    /\ UNCHANGED <<store_lock, used, limvars>>

ConfigNext ==
    \/ \E w \in Callers : create_begin(w)
    \/ \E w \in Callers : create_ctor(w)
    \/ \E w \in Callers : create_insert(w)
    \/ \E w \in Callers, sid \in Tokens : remove_session(w, sid)
    \/ \E w \in Callers : shutdown_begin(w)
    \/ \E w \in Callers : shutdown_sweep(w)
    \/ reaper_check
    \/ reaper_sweep
    \/ \E sid \in Tokens : conn_fail(sid)
    \/ Tick
    \/ \E w \in Callers, x_session_id \in minted : get_system_config(w, x_session_id)
    \/ \E w \in Callers : config_session(w)
    \/ \E w \in Callers : config_build(w)

ConfigSpec == ConnectInit /\ [][ConfigNext]_vars

\* ------------------------------------------------- a query being executed
\* execute_query, line 469: _get_session_or_401, which calls get_session
execute_begin(w, x_session_id) ==
    /\ pc[w] = "idle"
    /\ lock = "free"
    /\ sess[x_session_id].query_results.total_size_bytes + _estimate_size("b")
           <= MaxStoredBytes
    /\ LET g == get_session(Reg, x_session_id, now)
       IN  /\ g.val = "session" => sess[x_session_id].query_count < MaxUse
           /\ SetReg(g.reg, g.by)
           /\ IF g.val = "None"
              THEN /\ ret' = [op |-> "execute", sid |-> x_session_id, val |-> "401"]
                   /\ UNCHANGED <<pc, arg>>
              ELSE /\ ret' = NoRet
                   /\ pc' = [pc EXCEPT ![w] = "query"]
                   /\ arg' = [arg EXCEPT ![w] = x_session_id]
    /\ UNCHANGED <<now, _running, lock, minted, true_removes, r_pc>>
    /\ UNCHANGED <<storevars, limvars>>

\* execute_query, lines 475-640: the statement returns or raises and the
\* outcome is stored in the result store of the session object the caller
\* holds (lines 533, 597, 624), or the connection error is reported (503)
execute_done(w) ==
    /\ pc[w] = "query"
    /\ LET sid == arg[w]
       IN  \/ /\ conn_ok[sid]
              /\ sess' = [sess EXCEPT ![sid].query_results =
                              store_put(@, 1, "a", now)]
              /\ ret' = [op |-> "execute", sid |-> sid, val |-> "SUCCESS"]
           \/ /\ ~conn_ok[sid]
              /\ sess' = [sess EXCEPT ![sid].query_results =
                              store_put(@, 1, "b", now)]
              /\ ret' = [op |-> "execute", sid |-> sid, val |-> "FAILED"]
           \/ /\ ~conn_ok[sid]
              /\ sess' = sess
              /\ ret' = [op |-> "execute", sid |-> sid, val |-> "503"]
    /\ pc' = [pc EXCEPT ![w] = "idle"]
    /\ arg' = [arg EXCEPT ![w] = NoToken]
    /\ evicted' = NoEvict
    /\ UNCHANGED <<now, _sessions, conn_ok, close_count, _running, lock, minted,
                   true_removes, r_pc>>
    /\ UNCHANGED <<storevars, limvars>>

QueryNext ==
    \/ \E w \in Callers : create_begin(w)
    \/ \E w \in Callers : create_ctor(w)
    \/ \E w \in Callers : create_insert(w)
    \/ \E w \in Callers, x_session_id \in Tokens : execute_begin(w, x_session_id)
    \/ \E w \in Callers : execute_done(w)
    \/ \E w \in Callers, sid \in Tokens : remove_session(w, sid)
    \/ reaper_check
    \/ reaper_sweep
    \/ \E sid \in Tokens : conn_fail(sid)
    \/ Tick

QuerySpec == Init /\ [][QueryNext]_vars

\* ----------------------------------------------- a config cache filling up
\* A SystemConfigCache after puts for the session ids 1..n, for some n up
\* to maxCount.
CapInit ==
    /\ now = 0
    /\ _sessions = {}
    /\ sess = [t \in Tokens |-> NoSession]
    /\ conn_ok = [t \in Tokens |-> TRUE]
    /\ close_count = [t \in Tokens |-> 0]
    /\ _running = TRUE
    /\ lock = "free"
    /\ minted = {}
    /\ evicted = NoEvict
    /\ true_removes = [t \in Tokens |-> 0]
    /\ pc = [w \in Workers |-> "idle"]
    /\ arg = [w \in Workers |-> NoToken]
    /\ r_pc = "check"
    /\ ret = NoRet
    /\ \E n \in (maxCount - 100)..maxCount :
          store = [SystemConfigCache(CONFIG_CACHE_TTL_SECONDS) EXCEPT
                      !._cache = [k \in 1..n |-> CachedConfig("x", now)]]
    /\ store_lock = "free"
    /\ out = NoOut
    /\ used = <<>>
    /\ clock = 0
    /\ limiter = connect_rate_limiter
    /\ call = [w \in Workers |-> NoCall]
    /\ lim_out = NoLimOut
    /\ allowed_log = [k \in ClientIps |-> [t \in RetryTimes |-> 0]]
    /\ denial = [k \in ClientIps |-> NoDenial]

\* SystemConfigCache.put for the next session id that has no entry yet
config_put_new ==
    /\ Cardinality(DOMAIN store._cache) <= maxCount
    /\ config_put(Cardinality(DOMAIN store._cache) + 1, "x")

CapNext == config_put_new

CapSpec == CapInit /\ [][CapNext]_vars

\* ------------------------------------------------------------------ claims
\* The id was registered and has left the registry.
Removed(sid) ==
    /\ sid \in minted
    /\ sid \notin _sessions
    /\ \A w \in Workers : ~(pc[w] \in {"ctor", "insert"} /\ arg[w] = sid)

OthersUnchanged ==
    UNCHANGED <<now, _sessions, sess, conn_ok, close_count, _running, lock,
                minted, true_removes, pc, arg, r_pc, storevars>>

\* C1: for every session, whatever the interleaving of get_session (idle or
\* dead-probe path), remove_session, cleanup sweeps and shutdown, conn.close()
\* is called at most once, and it is called exactly in the step in which the
\* session id leaves _sessions.
C1_CloseOnce ==
    /\ [](\A sid \in Tokens : close_count[sid] <= 1)
    /\ [][\A sid \in Tokens :
            close_count'[sid] =
                close_count[sid] + (IF sid \in _sessions /\ sid \notin _sessions'
                                    THEN 1 ELSE 0)]_vars

\* C1 witness: a session that a path other than remove_session removed and
\* closed once, after which a remove_session for the same id found nothing
\* left to close.
C1_Witness ==
    \E sid \in Tokens :
        /\ Removed(sid)
        /\ true_removes[sid] = 0
        /\ close_count[sid] = 1
        /\ ret = [op |-> "remove", sid |-> sid, val |-> "False"]

\* C2: no session that is in _sessions has had close() called on its
\* connection; a connection is closed only once its session is out of the map.
C2_RegisteredOpen ==
    \A sid \in _sessions : close_count[sid] = 0

\* C2 witness: one session removed and closed while another one is still
\* registered and open.
C2_Witness ==
    \E sid \in _sessions, other \in Tokens :
        /\ Removed(other)
        /\ close_count[other] = 1
        /\ close_count[sid] = 0

\* C3: remove_session on an absent id returns False and changes nothing; on a
\* present id it returns True and takes the id out; over the whole behaviour at
\* most one remove_session of an id returns True.
C3_RemoveIdempotent ==
    /\ [](\A sid \in Tokens : true_removes[sid] <= 1)
    /\ [][\A sid \in Tokens :
            (ret'.op = "remove" /\ ret'.sid = sid) =>
                IF sid \in _sessions
                THEN /\ ret'.val = "True"
                     /\ sid \notin _sessions'
                     /\ true_removes'[sid] = 1
                ELSE /\ ret'.val = "False"
                     /\ evicted' = NoEvict
                     /\ OthersUnchanged]_vars

\* C3 witness: a remove_session returned False for an id whose earlier
\* remove_session had returned True.
C3_Witness ==
    \E sid \in Tokens :
        /\ Removed(sid)
        /\ true_removes[sid] = 1
        /\ ret = [op |-> "remove", sid |-> sid, val |-> "False"]

\* C4: a get_session whose probe finds the connection dead takes the session
\* out of _sessions, closes its connection once and returns None; every
\* get_session for an id that has left the registry returns None.
C4_DeadProbe ==
    [][/\ \A w \in Workers :
            (pc[w] = "probe" /\ pc'[w] = "idle" /\ ~conn_ok[arg[w]]) =>
                /\ arg[w] \in _sessions
                /\ arg[w] \notin _sessions'
                /\ close_count'[arg[w]] = close_count[arg[w]] + 1
                /\ ret' = [op |-> "get", sid |-> arg[w], val |-> "None"]
       /\ \A sid \in Tokens :
            (Removed(sid) /\ ret'.op = "get" /\ ret'.sid = sid) =>
                ret'.val = "None"]_vars

\* C4 witness: a get_session has just returned None for a session that a
\* dead probe, and nothing else, removed and closed.
C4_Witness ==
    \E sid \in Tokens :
        /\ evicted = [ids |-> {sid}, by |-> "get_dead", nonempty |-> {}]
        /\ close_count[sid] = 1
        /\ sid \notin _sessions
        /\ ret = [op |-> "get", sid |-> sid, val |-> "None"]

C6_GetTouches ==
    [][/\ \A w \in Workers :
            (pc[w] = "probe" /\ pc'[w] = "idle" /\ conn_ok[arg[w]]) =>
                ret' = [op |-> "get", sid |-> arg[w], val |-> "session"]
       /\ \A sid \in Tokens :
            (ret'.op = "get" /\ ret'.sid = sid /\ ret'.val = "session") =>
                /\ sid \in _sessions
                /\ conn_ok[sid]
                /\ _sessions' = _sessions
                /\ sess'[sid].last_used = now
                /\ sess'[sid].query_count = sess[sid].query_count + 1
                /\ sess'[sid].created_at = sess[sid].created_at
                /\ sess'[sid].query_results = sess[sid].query_results
                /\ \A o \in Tokens \ {sid} : sess'[o] = sess[o]
                /\ UNCHANGED <<close_count, conn_ok>>]_vars

\* C6 witness: get_session has just returned a session, touched after the
\* clock had moved on, while a second session sat untouched in the registry.
C6_Witness ==
    \E sid \in _sessions, o \in _sessions :
        /\ o # sid
        /\ ret = [op |-> "get", sid |-> sid, val |-> "session"]
        /\ sess[sid].query_count = 1
        /\ sess[sid].last_used = now
        /\ sess[sid].created_at < now
        /\ sess[o].query_count = 0

\* C7: once an id has left _sessions by any path it never comes back: it stays
\* out of the map, every later get_session for it returns None, every later
\* remove_session returns False, and create_session never returns it again.
C7_ClosedTerminal ==
    [][\A sid \in Tokens :
         Removed(sid) =>
            /\ sid \notin _sessions'
            /\ Removed(sid)'
            /\ (ret'.op = "get" /\ ret'.sid = sid) => ret'.val = "None"
            /\ (ret'.op = "remove" /\ ret'.sid = sid) => ret'.val = "False"
            /\ ret'.op = "create" => ret'.sid # sid
            /\ \A w \in Workers :
                  (pc[w] = "idle" /\ pc'[w] \in {"ctor", "probe"}) => arg'[w] # sid]_vars

\* C7 witness: after one session was removed, create_session has just returned
\* a different id.
C7_Witness ==
    \E sid \in Tokens :
        /\ Removed(sid)
        /\ ret.op = "create"
        /\ ret.sid # sid
        /\ ret.sid \in _sessions

\* C8: get_session does not hold the registry lock while the probe runs: while
\* a worker waits for its probe, the lock is free, so that a remove_session
\* for another id can run.
C8_ProbeOutsideLock ==
    \A w \in Workers :
        pc[w] = "probe" =>
            /\ lock = "free"
            /\ \A o \in Workers \ {w}, sid \in Tokens \ {arg[w]} :
                  pc[o] = "idle" => ENABLED remove_session(o, sid)

\* C9 as stated: the session create_session has just inserted has
\* created_at = last_used = now and query_count = 0.
C9_AsStated ==
    ret.op = "create" =>
        /\ ret.sid \in _sessions
        /\ sess[ret.sid].created_at = now
        /\ sess[ret.sid].last_used = now
        /\ sess[ret.sid].query_count = 0

\* C9 amended: create_session is never refused for the number of sessions in
\* the registry; the id it returns was never in the registry before; the
\* session it inserts has created_at <= last_used <= now (two clock reads of
\* the constructor, taken before the lock) and query_count = 0; every other
\* session is left as it was.
C9_Create ==
    /\ [](\A w \in Workers :
            (pc[w] = "insert" /\ lock = "free") => ENABLED create_insert(w))
    /\ [][\A sid \in Tokens :
            (ret'.op = "create" /\ ret'.sid = sid) =>
                /\ sid \notin _sessions
                /\ ~Removed(sid)
                /\ _sessions' = _sessions \cup {sid}
                /\ sess'[sid].created_at <= sess'[sid].last_used
                /\ sess'[sid].last_used <= now
                /\ sess'[sid].query_count = 0
                /\ sess'[sid].query_results.results = <<>>
                /\ \A o \in Tokens \ {sid} : sess'[o] = sess[o]
                /\ evicted' = NoEvict
                /\ UNCHANGED <<close_count, conn_ok>>]_vars

\* C9 witness: create_session has just inserted, next to an existing session,
\* a session whose two timestamps differ and are both older than now.
C9_Witness ==
    \E sid \in _sessions, o \in _sessions :
        /\ o # sid
        /\ ret = [op |-> "create", sid |-> sid, val |-> "sid"]
        /\ sess[sid].created_at < sess[sid].last_used
        /\ sess[sid].last_used < now

\* C10: while _running is set, a registered session that is idle beyond
\* max_idle_minutes, and that no get_session in progress is probing, is
\* eventually out of the registry, with no get_session or remove_session
\* needed for it, given a fair cleanup thread.
C10_ReaperEventually ==
    \A sid \in Tokens :
        (/\ sid \in _sessions
         /\ is_expired(sess[sid], max_idle_minutes, now)
         /\ _running
         /\ \A w \in Workers : ~(pc[w] = "probe" /\ arg[w] = sid))
            ~> (sid \notin _sessions \/ ~_running)

\* C10 witness: the cleanup thread has just removed and closed an idle session
\* while the registry was running and no worker was in a call.
C10_Witness ==
    \E sid \in Tokens :
        /\ evicted = [ids |-> {sid}, by |-> "reaper", nonempty |-> {}]
        /\ close_count[sid] = 1
        /\ _running
        /\ \A w \in Workers : pc[w] = "idle"

\* Every shutdown() that began has returned.
ShutdownReturned ==
    /\ ~_running
    /\ \A w \in Workers : pc[w] # "shutdown"

\* C11: in the state shutdown() returns in, _sessions is empty and every
\* session that was ever registered (so every session present when shutdown
\* began, whether shutdown itself, a cleanup sweep or a remove_session took it
\* out) has had conn.close() called exactly once.
C11_ShutdownClosesAll ==
    ret.op = "shutdown" =>
        /\ _sessions = {}
        /\ \A sid \in Tokens : Removed(sid) => close_count[sid] = 1
        /\ \A sid \in Tokens : ~Removed(sid) => close_count[sid] = 0

\* C11 witness: shutdown() has just returned after removing a session itself,
\* while another session, present when shutdown began, had been taken out by a
\* remove_session in between; both are closed once.
C11_Witness ==
    \E sid \in Tokens, other \in Tokens :
        /\ ret.op = "shutdown"
        /\ evicted = [ids |-> {sid}, by |-> "shutdown", nonempty |-> {}]
        /\ other # sid
        /\ true_removes[other] = 1
        /\ close_count[sid] = 1
        /\ close_count[other] = 1

\* C12: once shutdown() has returned, the cleanup thread has terminated and
\* performs no further sweep.
C12_ReaperStopped ==
    /\ [](ShutdownReturned => r_pc = "done")
    /\ [][ShutdownReturned => ~(r_pc = "sleep" /\ r_pc' = "check")]_vars

\* The step just taken was a call on a QueryResultStore / a SystemConfigCache.
OnStore == store.cls = "QueryResultStore"
OnCache == store.cls = "SystemConfigCache"

\* C13: whenever get returns a value, the entry it returns was stored under
\* that key and is no older than the ttl at the time of the call (now -
\* created_at <= ttl_minutes for a QueryResultStore, time.time() - cached_at
\* <= ttl_seconds for a SystemConfigCache); a get on an entry older than the
\* ttl returns None.
C13_TtlNeverStale ==
    [][/\ (OnStore /\ out'.op = "get") =>
            (out'.found <=>
                \E i \in 1..Len(store.results) :
                    /\ store.results[i].id = out'.key
                    /\ store.results[i].data = out'.data
                    /\ now - store.results[i].created_at <= store.ttl_minutes)
       /\ (OnCache /\ out'.op = "config_get") =>
            (out'.found <=>
                /\ out'.key \in DOMAIN store._cache
                /\ store._cache[out'.key].config = out'.data
                /\ time_time(now) - store._cache[out'.key].cached_at
                       <= store._ttl_seconds)]_vars

\* C13 witness: after puts, an earlier get and the passage of time, get has
\* just returned an entry whose age is exactly the ttl.
C13_Witness ==
    /\ OnStore
    /\ out.op = "get"
    /\ out.found
    /\ \E i \in 1..Len(store.results) :
          /\ store.results[i].id = out.key
          /\ store.results[i].last_accessed = now
          /\ now - store.results[i].created_at = store.ttl_minutes
    /\ Len(store.results) = 2

\* C14 as stated: a QueryResultStore never holds more than max_results entries
\* and its total_size_bytes never exceeds max_size_bytes.
C14_AsStated ==
    OnStore =>
        /\ Len(store.results) <= store.max_results
        /\ store.total_size_bytes <= store.max_size_bytes

\* C14 amended: a QueryResultStore never holds more than max_results entries,
\* and whenever it holds more than one entry its total_size_bytes is at most
\* max_size_bytes (a single entry may exceed the budget).
C14_Capacity ==
    OnStore =>
        /\ Len(store.results) <= store.max_results
        /\ Len(store.results) >= 2 =>
              store.total_size_bytes <= store.max_size_bytes

\* C14 witness: a put has just filled a store to max_results entries and to
\* exactly max_size_bytes.
C14_Witness ==
    /\ OnStore
    /\ out.op = "put"
    /\ Len(store.results) = 2
    /\ Len(store.results) = store.max_results
    /\ store.total_size_bytes = store.max_size_bytes

\* The query ids a store holds, and whether none of its entries is expired.
Keys(st) == {st.results[i].id : i \in 1..Len(st.results)}
Unexpired(st, t) ==
    \A i \in 1..Len(st.results) :
        ~result_is_expired(st.results[i], st.ttl_minutes, t)

\* C15 as stated: with max_results = N, after the put of the (N+1)-th
\* distinct key into a store that holds N unexpired entries, the key that was
\* put first is still in the store, to be accessed by get (the byte budget
\* playing no part).
C15_AsStated ==
    [][(/\ OnStore
        /\ out'.op = "put"
        /\ out'.key \notin Keys(store)
        /\ Len(store.results) = store.max_results
        /\ Unexpired(store, now)
        /\ store.total_size_bytes + _estimate_size(out'.data)
              <= store.max_size_bytes)
          => Head(store.results).id \in Keys(store')]_vars

\* C15 amended: with max_results = N >= 2 and the store full, when a key has
\* just been accessed by a successful get, the put of a new key (that fits
\* the byte budget once the oldest entry is gone) removes the entry at the
\* old end of the order and not the accessed one, which is still retrievable.
C15_LruPreserved ==
    [][(/\ OnStore
        /\ store.max_results >= 2
        /\ Len(store.results) = store.max_results
        /\ out.op = "get"
        /\ out.found
        /\ out'.op = "put"
        /\ out'.key \notin Keys(store)
        /\ store.total_size_bytes - Head(store.results).size_bytes
              + _estimate_size(out'.data) <= store.max_size_bytes)
          => /\ Head(store.results).id # out.key
             /\ Head(store.results).id \notin Keys(store')
             /\ store_contains(store', out.key, now)
             /\ store_get(store', out.key, now).data = out.data]_vars

\* C15 witness: a full store of two entries whose older entry was accessed by
\* get after it was put, and next to it the entry a put has just inserted in
\* place of the one that was in between.
C15_Witness ==
    /\ OnStore
    /\ store.max_results = 2
    /\ out.op = "put"
    /\ Len(store.results) = 2
    /\ store.results[2].id = out.key
    /\ store.results[1].id < out.key
    /\ store.results[1].last_accessed > store.results[1].created_at
    /\ store.results[1].last_accessed = store.results[2].created_at
    /\ Unexpired(store, now)

\* The place of a query id in the order of most recent successful use.
UsePos(query_id) == CHOOSE i \in 1..Len(used) : used[i] = query_id

\* C16: whenever a put removes an unexpired entry to make room, every
\* unexpired entry it keeps was put or successfully got more recently than the
\* removed one (calls on a store are serialised by its lock, so the most
\* recent uses of two entries are never tied); __contains__, __len__ and stats
\* leave the store, and with it the eviction order, as it was.
C16_EvictsLeastRecentlyUsed ==
    [][/\ (OnStore /\ out'.op = "put") =>
            \A i, j \in 1..Len(store.results) :
                (/\ ~result_is_expired(store.results[i], store.ttl_minutes, now)
                 /\ ~result_is_expired(store.results[j], store.ttl_minutes, now)
                 /\ store.results[i].id \notin Keys(store')
                 /\ store.results[j].id \in Keys(store')
                 /\ store.results[j].id # out'.key)
                    => /\ UsePos(store.results[i].id) < UsePos(store.results[j].id)
                       /\ store.results[i].last_accessed
                              <= store.results[j].last_accessed
       /\ (OnStore /\ out'.op \in {"contains", "len", "stats"}) =>
            store' = store]_vars

\* C16 witness: a put has just made room by removing an unexpired entry that
\* was put after the entry it kept, because the kept one had been got since.
C16_Witness ==
    /\ OnStore
    /\ out.op = "put"
    /\ Len(store.results) = 2
    /\ Len(used) = 3
    /\ used[1] \notin Keys(store)
    /\ used[2] = store.results[1].id
    /\ used[1] > used[2]
    /\ store.results[1].last_accessed > store.results[1].created_at
    /\ store.results[2].created_at = store.results[1].last_accessed
    /\ now = store.results[1].last_accessed
    /\ now - store.results[1].created_at <= store.ttl_minutes

\* C17: in a store with ttl_minutes > 0, a get of the key that the call just
\* before it put returns the data that was put, also when the size of that
\* data alone exceeds max_size_bytes; and after the put of such an oversized
\* result its key is the only one in the store.
C17_NoWriteDropped ==
    /\ [][(/\ OnStore
           /\ store.ttl_minutes > 0
           /\ out.op = "put"
           /\ out'.op = "get"
           /\ out'.key = out.key)
             => /\ out'.found
                /\ out'.data = out.data]_vars
    /\ []((/\ OnStore
           /\ out.op = "put"
           /\ _estimate_size(out.data) > store.max_size_bytes)
             => Keys(store) = {out.key})

\* C17 witness: get has just returned an oversized result, the only entry of
\* a store that had held other keys before it was put.
C17_Witness ==
    /\ OnStore
    /\ out.op = "get"
    /\ out.found
    /\ Len(store.results) = 1
    /\ store.results[1].id = out.key
    /\ store.results[1].size_bytes > store.max_size_bytes
    /\ store.results[1].created_at = now
    /\ Len(used) = 3
    /\ used[3] = out.key
    /\ store.max_results = 2

\* The sum of size_bytes over the entries of a store.
RECURSIVE SizeSum(_)
SizeSum(results) ==
    IF results = <<>> THEN 0
    ELSE Head(results).size_bytes + SizeSum(Tail(results))

\* C18: when the put of a new key would take total_size_bytes over
\* max_size_bytes, afterwards the new entry is retrievable, either the total
\* is within the budget or the new entry is alone in the store, and
\* total_size_bytes is the sum of the sizes of the entries that are left; so
\* with max_size_bytes = 100 and a store holding one 50-byte entry q1, the put
\* of a 60-byte q2 leaves q2 alone with total_size_bytes = 60.
C18_ByteEviction ==
    [][(/\ OnStore
        /\ store.ttl_minutes > 0
        /\ out'.op = "put"
        /\ out'.key \notin Keys(store)
        /\ store.total_size_bytes + _estimate_size(out'.data)
              > store.max_size_bytes)
          => /\ store_contains(store', out'.key, now)
             /\ \/ store'.total_size_bytes <= store.max_size_bytes
                \/ Keys(store') = {out'.key}
             /\ store'.total_size_bytes = SizeSum(store'.results)
             /\ (/\ store.max_size_bytes = 100
                 /\ Len(store.results) = 1
                 /\ Head(store.results).size_bytes = 50
                 /\ _estimate_size(out'.data) = 60)
                   => /\ Keys(store') = {out'.key}
                      /\ store'.total_size_bytes = 60]_vars

\* The entries of a store other than the one of a query id, in order.
Others(st, query_id) == SelectSeq(st.results, LAMBDA r : r.id # query_id)

\* C19: get on an absent key returns None and changes nothing; get on an
\* entry with now - created_at > ttl_minutes returns None and removes that
\* entry and no other (one entry fewer, total_size_bytes less by its size);
\* get on an unexpired entry returns its data, sets last_accessed to now and
\* moves it to the most-recently-used end, with the number of entries,
\* total_size_bytes and the other entries and their order unchanged.
C19_GetCases ==
    [][(OnStore /\ out'.op = "get") =>
          LET k == out'.key
              hit == SelectSeq(store.results, LAMBDA r : r.id = k)
          IN  IF hit = <<>>
              THEN /\ ~out'.found
                   /\ store' = store
              ELSE IF now - Head(hit).created_at > store.ttl_minutes
              THEN /\ ~out'.found
                   /\ store'.results = Others(store, k)
                   /\ Len(store'.results) = Len(store.results) - 1
                   /\ store'.total_size_bytes
                          = store.total_size_bytes - Head(hit).size_bytes
              ELSE /\ out'.found
                   /\ out'.data = Head(hit).data
                   /\ Len(store'.results) = Len(store.results)
                   /\ store'.results[Len(store'.results)]
                          = [Head(hit) EXCEPT !.last_accessed = now]
                   /\ Others(store', k) = Others(store, k)
                   /\ store'.total_size_bytes = store.total_size_bytes]_vars

\* C19 witness: get has just returned None for a key that had been put and
\* has expired, leaving behind another entry that is just as old and still
\* stored, with total_size_bytes down to that entry's size.
C19_Witness ==
    /\ OnStore
    /\ store.ttl_minutes > 0
    /\ out.op = "get"
    /\ ~out.found
    /\ \E i \in 1..Len(used) : used[i] = out.key
    /\ out.key \notin Keys(store)
    /\ Len(store.results) = 1
    /\ now - store.results[1].created_at > store.ttl_minutes
    /\ store.total_size_bytes = store.results[1].size_bytes
    /\ Len(used) = 2

\* C20: a store with a negative ttl or a non-positive count limit is refused
\* by its constructor, so no call is ever made on such a store: none returns
\* and none is in progress.
C20_FailFast ==
    (out.op # "none" \/ store_lock # "free") =>
        /\ OnStore => (store.ttl_minutes >= 0 /\ store.max_results > 0)
        /\ OnCache => store._ttl_seconds >= 0

\* What a get of the key returns in the current state.
GetValue(k) ==
    IF OnStore THEN store_get(store, k, now).data ELSE cache_get(store, k, now).data

\* C21: a value obtained from get is a copy or an immutable view: a caller
\* that mutates the value it received does not change the stored entry, so
\* a later get of the key still returns the value that was put.
\* The code returns the stored dict itself (result.data, entry.config).
C21_NoAliasing ==
    [][out'.op \in {"mutate", "config_mutate"} =>
          \A k \in QueryIds \cup Tokens : GetValue(k)' = GetValue(k)]_vars

\* The ids of the results a session's store holds.
ResultIds(sid) == Keys(sess[sid].query_results)

\* C22: when a session leaves the registry, by whatever path, its result
\* store is cleared (no entries, zero bytes) as part of that removal, which
\* happens once; the registry empties a session's store at no other time
\* (results disappear only in a removal or in a put on that store); and the
\* store stays usable for a caller that still holds the session: a put on it
\* stores the result and a get of it finds it, registered or not.
C22_ClearedAtRemoval ==
    [][\A sid \in Tokens :
          /\ (sid \in _sessions /\ sid \notin _sessions') =>
                /\ sess'[sid].query_results.results = <<>>
                /\ sess'[sid].query_results.total_size_bytes = 0
                /\ close_count'[sid] = 1
          /\ (sid \in minted /\ ~(ResultIds(sid) \subseteq ResultIds(sid)')) =>
                \/ sid \in _sessions /\ sid \notin _sessions'
                \/ ret' = [op |-> "put", sid |-> sid, val |-> "None"]
          /\ ret' = [op |-> "put", sid |-> sid, val |-> "None"] =>
                LET st == sess'[sid].query_results
                IN  /\ st.results # <<>>
                    /\ st.results[Len(st.results)].created_at = now
                    /\ store_get(st, st.results[Len(st.results)].id, now).found
      ]_vars

\* A removal has just cleared a store that held results, while the store of a
\* session removed earlier holds a result put after its removal.
C22_Witness ==
    \E sid \in Tokens, other \in Tokens :
        /\ sid \in evicted.nonempty
        /\ sess[sid].query_results.results = <<>>
        /\ other \in minted \ _sessions
        /\ close_count[other] = 1
        /\ sess[other].query_results.results # <<>>

\* The step is the locked section of w's is_allowed call.
Locked(w) == call[w].at = "lock" /\ call'[w].at = "idle"

\* The window of the limiter, in ticks.
WindowTicks == limiter._window_seconds * TicksPerSecond

\* The calls for the key that were allowed so far.
LogKey(k) == LogSum(allowed_log, {k} \X LimTimes)

\* C23 (windowing): with max_attempts = 5 and window = 60 s, the first five
\* calls for a key are all allowed; a call made within the first second once
\* five attempts of that second are stored is denied, with a retry time
\* within 60 +- 1; and a call made when more than 60 s have passed since a
\* stored attempt is allowed again.
C23_Windowing ==
    [][\A w \in Workers :
          Locked(w) =>
             LET k == call[w].key
                 t == call[w].now
                 before == limiter._attempts[k]
             IN  /\ limiter._max_attempts = 5 /\ limiter._window_seconds = 60
                 /\ LogKey(k) < 5 => lim_out'.allowed
                 /\ ( /\ t = clock
                      /\ t <= TicksPerSecond
                      /\ Len(before) = 5 ) =>
                        /\ ~lim_out'.allowed
                        /\ lim_out'.retry \in 59..61
                 /\ (\E i \in 1..Len(before) : t - before[i] > WindowTicks) =>
                        lim_out'.allowed
      ]_vars

\* Five calls of the first second were allowed, and a call made more than
\* 60 s after them has just been allowed.
C23_Witness ==
    /\ lim_out.op = "is_allowed"
    /\ lim_out.allowed
    /\ lim_out.now = clock
    /\ lim_out.now > WindowTicks
    /\ allowed_log[lim_out.key][0] + allowed_log[lim_out.key][1] = 5

\* C24: for every client key and every half-open interval of the length of
\* the window, at most max_attempts calls whose now lies in the interval
\* were allowed, however the callers interleave.
\* The code reads now before it takes the lock (line 38 against line 40).
C24_AtMostMaxPerWindow ==
    \A k \in ClientIps, t0 \in LimTimes :
        LogSum(allowed_log,
               {k} \X {t \in LimTimes : t0 <= t /\ t < t0 + WindowTicks})
            <= limiter._max_attempts

\* C25: immediately after an is_allowed call for a key, every timestamp
\* stored for the key is younger than the window, the stored timestamps are
\* in non-decreasing order, and there are at most max_attempts of them.
C25_StoredTimestamps ==
    lim_out.op = "is_allowed" =>
        LET a == limiter._attempts[lim_out.key]
        IN  /\ \A i \in 1..Len(a) : lim_out.now - a[i] < WindowTicks
            /\ \A i \in 1..Len(a), j \in 1..Len(a) : i <= j => a[i] <= a[j]
            /\ Len(a) <= limiter._max_attempts

\* The smallest of the timestamps.
Oldest(a) == CHOOSE x \in {a[i] : i \in 1..Len(a)} : \A i \in 1..Len(a) : x <= a[i]

\* ticks as seconds, rounded up to a whole number
CeilSeconds(ticks) == (ticks + TicksPerSecond - 1) \div TicksPerSecond

\* C26, as stated: when is_allowed denies, the retry time is
\* window - (now - oldest) + 1 rounded up to whole seconds, with oldest the
\* oldest unpruned timestamp of the key, and is never less than 1.
C26_AsStated ==
    [][\A w \in Workers :
          (Locked(w) /\ ~lim_out'.allowed) =>
             LET kept == limiter'._attempts[call[w].key]
             IN  /\ lim_out'.retry =
                        CeilSeconds(WindowTicks - (call[w].now - Oldest(kept))
                                        + TicksPerSecond)
                 /\ lim_out'.retry >= 1
      ]_vars

\* C26, amended: when is_allowed denies, the retry time is the whole seconds
\* of window - (now - first), plus 1, with first the first stored unpruned
\* timestamp of the key, and is never less than 1.
C26_RetryAfter ==
    [][\A w \in Workers :
          (Locked(w) /\ ~lim_out'.allowed) =>
             LET kept == limiter'._attempts[call[w].key]
                 left == WindowTicks - (call[w].now - kept[1])
             IN  /\ left > 0
                 /\ lim_out'.retry = (left \div TicksPerSecond) + 1
                 /\ lim_out'.retry >= 1
      ]_vars

\* A call was denied half a second after the first stored attempt: the retry
\* time is 60, the whole seconds of 59.5 plus 1.
C26_Witness ==
    /\ lim_out.op = "is_allowed"
    /\ ~lim_out.allowed
    /\ lim_out.now - limiter._attempts[lim_out.key][1] = 1
    /\ lim_out.retry = 60

\* C27: a denied is_allowed call records nothing: the timestamps stored for
\* the key afterwards are exactly the unpruned ones from before the call (so
\* none is added and no stored one is moved later), the other keys and the
\* record of allowed calls are untouched, and the call is over: nothing
\* stays queued for a later retry.
C27_DenialRecordsNothing ==
    [][\A w \in Workers :
          (Locked(w) /\ ~lim_out'.allowed) =>
             LET k == call[w].key
                 before == limiter._attempts[k]
             IN  /\ limiter'._attempts[k] =
                        SelectSeq(before,
                                  LAMBDA a : call[w].now - a < WindowTicks)
                 /\ \A o \in ClientIps \ {k} :
                        limiter'._attempts[o] = limiter._attempts[o]
                 /\ allowed_log' = allowed_log
                 /\ call'[w] = NoCall
      ]_vars

\* A call has just been denied for a key that has five attempts stored and
\* had more than five calls allowed so far.
C27_Witness ==
    /\ lim_out.op = "is_allowed"
    /\ ~lim_out.allowed
    /\ Len(limiter._attempts[lim_out.key]) = 5
    /\ LogKey(lim_out.key) > 5

\* C28: the limiter gates session creation only.  On the connect path a
\* session is created only by a request whose is_allowed call returned
\* allowed: a thread reaches the creation only in the step in which its call
\* is allowed, a denied request ends with the 429 response and creates
\* nothing; the key is a client address, never a session token; and only
\* the is_allowed call of connect reads or changes the limiter: no
\* get_session, remove_session, query or config operation does.
C28_GatesCreationOnly ==
    [][/\ \A w \in Workers :
            /\ (pc'[w] = "auth" /\ pc[w] # "auth") =>
                   Locked(w) /\ lim_out'.allowed
            /\ (Locked(w) /\ ~lim_out'.allowed) =>
                   /\ pc'[w] = "idle"
                   /\ ret' = [op |-> "connect", sid |-> NoToken, val |-> "429"]
                   /\ minted' = minted /\ _sessions' = _sessions
            /\ (arg'[w] \in minted' \ minted) => pc[w] = "auth"
            /\ call'[w].at = "lock" => call'[w].key \in ClientIps
       /\ minted' # minted => \E w \in Workers : arg'[w] \in minted' \ minted
       /\ (limiter' # limiter \/ allowed_log' # allowed_log) =>
              \E w \in Workers : pc[w] = "connect" /\ Locked(w)
       /\ (ret'.op \in {"get", "remove", "put"} \/ out' # out \/ store' # store) =>
              UNCHANGED limvars
      ]_vars

\* A request of a client address was denied after five attempts of that
\* address, two sessions having been created by allowed requests.
C28_Witness ==
    /\ ret = [op |-> "connect", sid |-> NoToken, val |-> "429"]
    /\ ~lim_out.allowed
    /\ LogKey(lim_out.key) = 5
    /\ Cardinality(minted) = 2

\* C29: the config cache is capped: after any sequence of put calls for
\* distinct session ids it holds at most maxCount (10000) entries.
\* SystemConfigCache has no limit on the number of entries.
C29_Capped ==
    OnCache => Cardinality(DOMAIN store._cache) <= maxCount

\* C30: SystemConfigCache.put always overwrites the entry of the session id
\* and restarts its TTL (cached_at is the time of the put); get returns the
\* stored config, the one put last, while now - cached_at <= ttl, and once
\* now - cached_at > ttl it returns None and removes the entry; the entries
\* of the other session ids are unaffected by either call, and nothing but
\* put, get and invalidate changes the cache.
C30_ConfigPutGet ==
    [][OnCache =>
          LET k == out'.key
              rest(c) == [o \in DOMAIN c._cache \ {k} |-> c._cache[o]]
          IN  /\ out'.op = "config_put" =>
                    /\ k \in DOMAIN store'._cache
                    /\ store'._cache[k].config = out'.data
                    /\ store'._cache[k].cached_at = now * 60
                    /\ rest(store') = rest(store)
              /\ out'.op = "config_get" =>
                    IF k \notin DOMAIN store._cache
                    THEN ~out'.found /\ store' = store
                    ELSE IF now * 60 - store._cache[k].cached_at
                                <= store._ttl_seconds
                    THEN /\ out'.found
                         /\ out'.data = store._cache[k].config
                         /\ store' = store
                    ELSE /\ ~out'.found
                         /\ k \notin DOMAIN store'._cache
                         /\ rest(store') = rest(store)
              /\ store' # store =>
                    out'.op \in {"config_put", "config_get", "config_invalidate"}
      ]_vars

\* get has just returned the config of an entry that was overwritten after
\* the clock had advanced and is now exactly ttl seconds old, while the
\* entry of another session id is still stored.
C30_Witness ==
    /\ OnCache
    /\ out.op = "config_get"
    /\ out.found
    /\ store._cache[out.key].cached_at > 0
    /\ now * 60 - store._cache[out.key].cached_at = store._ttl_seconds
    /\ out.data = store._cache[out.key].config
    /\ DOMAIN store._cache # {out.key}

\* C31: SystemConfigCache.invalidate(key) deletes the entry of key when there
\* is one, expired or not, and returns whether there was one, leaving the
\* other entries alone; on a key that has no entry (as after an invalidate)
\* it returns False and changes nothing; while a key has no entry get(key)
\* returns None, and only put(key) gives the key an entry again.
C31_InvalidateIsRemove ==
    [][OnCache =>
          LET k == out'.key
              rest(c) == [o \in DOMAIN c._cache \ {k} |-> c._cache[o]]
          IN  /\ out'.op = "config_invalidate" =>
                    /\ out'.found = (k \in DOMAIN store._cache)
                    /\ k \notin DOMAIN store'._cache
                    /\ rest(store') = rest(store)
                    /\ k \notin DOMAIN store._cache => store' = store
              /\ (out'.op = "config_get" /\ k \notin DOMAIN store._cache) =>
                    ~out'.found /\ out'.data = "None"
              /\ \A j \in Tokens :
                    (j \notin DOMAIN store._cache /\ j \in DOMAIN store'._cache)
                        => out'.op = "config_put" /\ out'.key = j
      ]_vars

\* invalidate has just returned True for a key and removed its entry while
\* the entry of another key stays.
C31_Witness ==
    /\ OnCache
    /\ out.op = "config_invalidate"
    /\ out.found
    /\ out.key \notin DOMAIN store._cache
    /\ DOMAIN store._cache # {}

\* C32: a public operation runs as a whole under the lock of its instance,
\* so it acts at one moment and the operations take effect in the order of
\* those moments: while a thread is inside is_allowed, between its first
\* step (the clock read) and its return, no other thread's is_allowed changes
\* the same RateLimiter, and the time a call prunes with and records is the
\* time at which it holds the lock.
C32_WholeUnderLock ==
    [][\A w \in Workers :
          /\ (call[w].at = "lock" /\ call'[w] = call[w]) => limiter' = limiter
          /\ Locked(w) => lim_out'.now = clock
      ]_vars

\* C33: in every reachable state of a QueryResultStore total_size_bytes is
\* the sum of size_bytes over the entries stored, and is not negative.
C33_TotalIsSum ==
    OnStore =>
        /\ store.total_size_bytes = SizeSum(store.results)
        /\ store.total_size_bytes >= 0

C35_RetrySufficient ==
    [][\A w \in Workers :
          LET d == denial[call[w].key]
          IN  (/\ Locked(w)
               /\ d.retry > 0
               /\ call[w].now = d.now + d.retry * TicksPerSecond)
                  => lim_out'.allowed
      ]_vars

\* a key was denied with a retry value and a call for it that read the
\* time of the denial plus that value is about to take the lock.
C35_Witness ==
    \E w \in Workers :
        /\ call[w].at = "lock"
        /\ denial[call[w].key].retry > 0
        /\ call[w].now = denial[call[w].key].now
                            + denial[call[w].key].retry * TicksPerSecond

\* C36: the config endpoint never answers with a cached config for a session
\* id that is not in the registry: a request that has just been answered
\* from the cache was for a registered session.
C36_NoConfigForRemoved ==
    (ret.op = "config" /\ ret.val = "cached") => ret.sid \in _sessions

\* C37: the cleanup thread never closes the connection of a session while a
\* caller that got the session from get_session is still executing a query
\* on it, however long the query stays in flight.
C37_NoCloseInFlight ==
    \A w \in Workers :
        (pc[w] = "query" /\ evicted.by = "reaper") => arg[w] \notin evicted.ids

\* C38: a session that is in the registry after shutdown() returned, so one
\* created after shutdown was called, and that has been idle for longer
\* than max_idle_minutes is eventually removed from the registry and closed
\* in the background, that is, unless a worker thread makes a further call.
C38_ReapedAfterShutdown ==
    \A sid \in Tokens :
        (/\ ShutdownReturned
         /\ sid \in _sessions
         /\ is_expired(sess[sid], max_idle_minutes, now))
            ~> \/ sid \notin _sessions /\ close_count[sid] = 1
               \/ \E w \in Workers : pc[w] # "idle"

\* C39: a put on a query id whose entry is present and unexpired, with data
\* that fits in max_size_bytes together with the other unexpired entries,
\* replaces the data of that entry and evicts no other unexpired entry; so it
\* does not lower the number of entries of a store that is at max_results.
C39_OverwriteEvictsNothing ==
    [][(/\ OnStore
        /\ out'.op = "put"
        /\ store_contains(store, out'.key, now)
        /\ SizeSum(SelectSeq(Others(store, out'.key),
                             LAMBDA r : ~result_is_expired(r, store.ttl_minutes, now)))
              + _estimate_size(out'.data) <= store.max_size_bytes)
          => /\ \A i \in 1..Len(store.results) :
                    ~result_is_expired(store.results[i], store.ttl_minutes, now)
                        => store.results[i].id \in Keys(store')
             /\ \E j \in 1..Len(store'.results) :
                    /\ store'.results[j].id = out'.key
                    /\ store'.results[j].data = out'.data
             /\ (Unexpired(store, now) /\ Len(store.results) = store.max_results)
                    => Len(store'.results) = store.max_results
      ]_vars

\* C40: put returns and releases the lock of the store on every
\* QueryResultStore the constructor accepts, a max_results <= 0 or a
\* max_size_bytes below the size of the entry included: no put is ever left
\* holding the lock, so the store can always be called again.
C40_PutTerminates ==
    OnStore => store_lock = "free"

====
